---- MODULE Spec2Model ----
(***************************************************************************)
(* Model of src/StockYield.py: InvestmentConfig, DividendCalculator        *)
(* (calculate_dividend_shares, simulate, _generate_summary),               *)
(* get_user_input and main.                                                *)
(*                                                                         *)
(* Python's float is a binary floating-point number whose every operation  *)
(* is rounded to nearest, ties to even.  The model keeps that arithmetic:  *)
(* a finite float is m * 2^e with an odd mantissa m of at most Prec bits   *)
(* (Prec is 53 in CPython; the model checks with a narrower significand),  *)
(* and nan and inf are values of their own.  The exponent is unbounded:    *)
(* the magnitudes the model reaches are far inside the range of a double,  *)
(* so overflow to inf and underflow never happen in it.  Signed zero is    *)
(* not distinguished (no operation of the program tells -0.0 from 0.0).    *)
(***************************************************************************)
EXTENDS Integers, Sequences, FiniteSets, TLC

\* Significand width of a float, in bits.
Prec == 5
\* Largest `years` argument passed to simulate.
MaxYears == 2
\* Number of input lines get_user_input reads before the model stops feeding it.
MaxAttempts == 2

\* 2^n, and 1 for n <= 0.
Pow2(n) == IF n <= 0 THEN 1 ELSE 2 ^ n

\* Number of bits of 0 <= n < 2^31, by halving the width.
BitLen2(n) == IF n < 2 THEN n ELSE 2

BitLen4(n) == IF n < 4 THEN BitLen2(n) ELSE 2 + BitLen2(n \div 4)

BitLen8(n) == IF n < 16 THEN BitLen4(n) ELSE 4 + BitLen4(n \div 16)

BitLen16(n) == IF n < 256 THEN BitLen8(n) ELSE 8 + BitLen8(n \div 256)

BitLen(n) == IF n < 65536 THEN BitLen16(n) ELSE 16 + BitLen16(n \div 65536)

Abs(i) == IF i < 0 THEN 0 - i ELSE i

Sgn(i) == IF i < 0 THEN 0 - 1 ELSE IF i = 0 THEN 0 ELSE 1

Min(a, b) == IF a <= b THEN a ELSE b

(***************************************************************************)
(* Float values.                                                           *)
(***************************************************************************)
NaN == [k |-> "nan", m |-> 0, e |-> 0]

Inf(s) == [k |-> "inf", m |-> s, e |-> 0]

\* Number of trailing zero bits of 0 < n < 2^31, by halving the width.
Zeros2(n) == IF n % 2 = 0 THEN 1 ELSE 0

Zeros4(n) == IF n % 4 = 0 THEN 2 + Zeros2(n \div 4) ELSE Zeros2(n)

Zeros8(n) == IF n % 16 = 0 THEN 4 + Zeros4(n \div 16) ELSE Zeros4(n)

Zeros16(n) == IF n % 256 = 0 THEN 8 + Zeros8(n \div 256) ELSE Zeros8(n)

TrailingZeros(n) == IF n % 65536 = 0 THEN 16 + Zeros16(n \div 65536) ELSE Zeros16(n)

\* The finite value m * 2^e in canonical form (odd mantissa, zero as 0 * 2^0).
Fin(m, e) ==
    IF m = 0 THEN [k |-> "fin", m |-> 0, e |-> 0]
    ELSE LET t == TrailingZeros(Abs(m))
         IN  [k |-> "fin", m |-> Sgn(m) * (Abs(m) \div Pow2(t)), e |-> e + t]

Zero == Fin(0, 0)

IsNaN(x) == x.k = "nan"

\* Sign of a float that is not nan.
FSign(x) == IF x.k = "inf" THEN x.m ELSE Sgn(x.m)

RoundValue(m, e) ==
    LET a  == Abs(m)
        nb == BitLen(a)
    IN  IF nb <= Prec THEN Fin(m, e)
        ELSE LET sh   == nb - Prec
                 q    == a \div Pow2(sh)
                 r    == a % Pow2(sh)
                 half == Pow2(sh - 1)
                 up   == r > half \/ (r = half /\ q % 2 = 1)
             IN  Fin(Sgn(m) * (IF up THEN q + 1 ELSE q), e + sh)

\* m * 2^e rounded to Prec significant bits, to nearest, ties to even (the
\* operands are bound as values, each evaluated once; so are those of + - * /).
Round(m, e) == CHOOSE r \in {RoundValue(a, b) : a \in {m}, b \in {e}} : TRUE

\* The quotient (a * 2^ea) / (b * 2^eb), b # 0, correctly rounded: the integer
\* quotient is taken with Prec + 2 bits or more and a sticky bit for the rest.
DivRound(a, ea, b, eb) ==
    LET k    == Prec + 1 + BitLen(Abs(b))
        n    == Abs(a) * Pow2(k)
        q    == n \div Abs(b)
        r    == n % Abs(b)
        mant == 2 * q + (IF r = 0 THEN 0 ELSE 1)
    IN  Round(Sgn(a) * Sgn(b) * mant, ea - eb - k - 1)

\* float(i) for a Python int i.
FromInt(i) == Round(i, 0)

\* The float nearest to the decimal n / 10^digits (a float literal, float(str)).
FromDecimal(n, digits) == DivRound(n, 0, Pow2(digits) * (5 ^ digits), 0)

Add(x, y) ==
    IF IsNaN(x) \/ IsNaN(y) THEN NaN
    ELSE IF x.k = "inf" /\ y.k = "inf" THEN (IF x.m = y.m THEN x ELSE NaN)
    ELSE IF x.k = "inf" THEN x
    ELSE IF y.k = "inf" THEN y
    ELSE IF x.m = 0 THEN y
    ELSE IF y.m = 0 THEN x
    ELSE IF x.e - y.e >= 2 * Prec + 2 THEN x
    ELSE IF y.e - x.e >= 2 * Prec + 2 THEN y
    ELSE LET e == Min(x.e, y.e)
         IN  Round(x.m * Pow2(x.e - e) + y.m * Pow2(y.e - e), e)

Mul(x, y) ==
    IF IsNaN(x) \/ IsNaN(y) THEN NaN
    ELSE IF x.k = "inf" \/ y.k = "inf"
         THEN (IF FSign(x) * FSign(y) = 0 THEN NaN ELSE Inf(FSign(x) * FSign(y)))
    ELSE Round(x.m * y.m, x.e + y.e)

Div(x, y) ==
    IF IsNaN(x) \/ IsNaN(y) THEN NaN
    ELSE IF x.k = "inf" THEN (IF y.k = "inf" THEN NaN ELSE Inf(x.m * FSign(y)))
    ELSE IF y.k = "inf" THEN Zero
    ELSE DivRound(x.m, x.e, y.m, y.e)

\* x + y
FAdd(x, y) == CHOOSE r \in {Add(a, b) : a \in {x}, b \in {y}} : TRUE

\* -x
FNeg(x) == IF IsNaN(x) THEN NaN ELSE [x EXCEPT !.m = 0 - x.m]

\* x - y
FSub(x, y) == CHOOSE r \in {Add(a, b) : a \in {x}, b \in {FNeg(y)}} : TRUE

\* x * y
FMul(x, y) == CHOOSE r \in {Mul(a, b) : a \in {x}, b \in {y}} : TRUE

\* x / y for y # 0 (Python raises ZeroDivisionError for a zero divisor).
FDiv(x, y) == CHOOSE r \in {Div(a, b) : a \in {x}, b \in {y}} : TRUE

\* x < y on floats that are not nan.
Less(x, y) ==
    IF x.k = "inf" \/ y.k = "inf"
    THEN (IF x.k = "inf" /\ y.k = "inf" THEN x.m < y.m
          ELSE IF x.k = "inf" THEN x.m < 0 ELSE y.m > 0)
    ELSE IF FSign(x) # FSign(y) THEN FSign(x) < FSign(y)
    ELSE IF x.m = 0 THEN FALSE
    ELSE LET tx == BitLen(Abs(x.m)) + x.e
             ty == BitLen(Abs(y.m)) + y.e
             e  == Min(x.e, y.e)
         IN  IF tx # ty THEN (IF x.m > 0 THEN tx < ty ELSE ty < tx)
             ELSE x.m * Pow2(x.e - e) < y.m * Pow2(y.e - e)

\* x < y, x <= y: every comparison with nan is False.
FLt(x, y) == ~IsNaN(x) /\ ~IsNaN(y) /\ Less(x, y)

FLe(x, y) == ~IsNaN(x) /\ ~IsNaN(y) /\ ~Less(y, x)

(***************************************************************************)
(* InvestmentConfig and the inputs the model draws.                        *)
(***************************************************************************)
InvestmentConfig(price, dividend, mpq, qpy) ==
    [stock_price |-> price, monthly_dividend_per_share |-> dividend,
     months_per_quarter |-> mpq, quarters_per_year |-> qpy]

\* The configuration main builds: 53.5 and 0.63 are float literals, the
\* calendar fields keep their defaults.
MainConfig == InvestmentConfig(FromDecimal(535, 1), FromDecimal(63, 2), 3, 4)

\* Configurations of the engine's data model: stock_price > 0,
\* monthly_dividend_per_share >= 0, positive calendar constants.
Prices == {FromDecimal(535, 1), Fin(3, 0), Fin(1, -1)}

Dividends == {Zero, FromDecimal(63, 2), Fin(1, -3)}

Calendars == {<<3, 4>>, <<2, 2>>, <<1, 3>>}

Configs ==
    {InvestmentConfig(p, d, c[1], c[2]) : p \in Prices, d \in Dividends, c \in Calendars}

\* years: the engine does not validate it, and 0 runs no quarter.
YearsArgs == 0..MaxYears

\* shares_per_quarter: non-negative floats.
SharesArgs == {Zero, Fin(1, 0), FromDecimal(1, 1), FromInt(100)}

VARIABLES
    config,              \* self.config
    total_shares,        \* self.total_shares
    pc,                  \* where the program stands
    years,               \* simulate's argument
    shares_per_quarter,  \* simulate's argument
    total_quarters,      \* simulate's local
    quarter,             \* the quarter loop's variable (0 before the first)
    month,               \* the month loop's variable (0 before the first)
    summary,             \* <<d>> for the dict d the last finished call returned
    prev,                \* <<r>>: arguments and summary of the call before it
    quarter_start,       \* history: total_shares before the quarter's purchase
    purchases,           \* history: purchases made by the running call
    reinvestments,       \* history: dividends reinvested by the running call
    attempts,            \* lines get_user_input has read
    error                \* the last message get_user_input printed

vars == <<config, total_shares, pc, years, shares_per_quarter, total_quarters,
          quarter, month, summary, prev, quarter_start, purchases,
          reinvestments, attempts, error>>

(***************************************************************************)
(* DividendCalculator.                                                     *)
(***************************************************************************)
\* A dividend computed from the per-share rate alone, the balance forgotten.
dividend_of_one_share(ts, cfg) ==
    FDiv(cfg.monthly_dividend_per_share, cfg.stock_price)

\* dividend_amount = total_shares * monthly_dividend_per_share;
\* return dividend_amount / stock_price
calculate_dividend_shares(ts, cfg) ==
    LET dividend_amount == FMul(ts, cfg.monthly_dividend_per_share)
    IN  FDiv(dividend_amount, cfg.stock_price)

\* A simulate that forgets its reset and starts from what the instance held.
entry_shares_kept(ts) == ts

\* self.total_shares = 0.0 on entry of simulate, whatever it held.
entry_shares(ts) == Zero

\* A simulate that runs one year's quarters whatever `years` is.
quarters_of_one_year(y, cfg) == cfg.quarters_per_year

\* total_quarters = years * self.config.quarters_per_year
quarters_to_run(y, cfg) == y * cfg.quarters_per_year

\* A quarter that buys its shares twice.
after_purchase_twice(ts, s) == FAdd(FAdd(ts, s), s)

\* self.total_shares += shares_per_quarter
after_purchase(ts, s) == FAdd(ts, s)

\* A reinvestment that takes the dividend off the balance.
after_dividend_taken(ts, cfg) == FSub(ts, calculate_dividend_shares(ts, cfg))

\* A reinvestment that forgets the dividend rate: the balance's worth of shares.
after_dividend_unrated(ts, cfg) == FAdd(ts, FDiv(ts, cfg.stock_price))

\* self.total_shares += dividend_shares
after_dividend(ts, cfg) == FAdd(ts, calculate_dividend_shares(ts, cfg))

\* A summary whose invested total forgets quarters_per_year.
generate_summary_per_year(ts, cfg, y, s) ==
    LET total_invested == FMul(s, FromInt(y))
        monthly_dividend_shares == calculate_dividend_shares(ts, cfg)
    IN  [years |-> y,
         total_invested_shares |-> total_invested,
         total_shares |-> ts,
         total_value |-> FMul(ts, cfg.stock_price),
         shares_from_dividend |-> FSub(ts, total_invested),
         monthly_dividend_shares |-> monthly_dividend_shares,
         monthly_dividend_value |-> FMul(monthly_dividend_shares, cfg.stock_price)]

\* The dict _generate_summary returns; an int operand is converted to float.
generate_summary(ts, cfg, y, s) ==
    LET total_invested == FMul(FMul(s, FromInt(y)), FromInt(cfg.quarters_per_year))
        total_value == FMul(ts, cfg.stock_price)
        monthly_dividend_shares == calculate_dividend_shares(ts, cfg)
        monthly_dividend_value == FMul(monthly_dividend_shares, cfg.stock_price)
    IN  [years |-> y,
         total_invested_shares |-> total_invested,
         total_shares |-> ts,
         total_value |-> total_value,
         shares_from_dividend |-> FSub(ts, total_invested),
         monthly_dividend_shares |-> monthly_dividend_shares,
         monthly_dividend_value |-> monthly_dividend_value]

\* __init__: the instance holds its configuration and no shares.
Constructed(cfg) ==
    /\ config = cfg
    /\ total_shares = Zero
    /\ years = 0
    /\ shares_per_quarter = Zero
    /\ total_quarters = 0
    /\ quarter = 0
    /\ month = 0
    /\ summary = <<>>
    /\ prev = <<>>
    /\ quarter_start = Zero
    /\ purchases = 0
    /\ reinvestments = 0
    /\ attempts = 0
    /\ error = ""

\* Entry of simulate(y, s): the reset and total_quarters.
Enter(y, s) ==
    /\ years' = y
    /\ shares_per_quarter' = s
    /\ total_shares' = entry_shares(total_shares)
    /\ total_quarters' = quarters_to_run(y, config)
    /\ quarter' = 0
    /\ month' = 0
    /\ summary' = <<>>
    /\ prev' = IF summary = <<>> THEN prev
               ELSE <<[years |-> years, shares_per_quarter |-> shares_per_quarter,
                       summary |-> summary[1]]>>
    /\ quarter_start' = entry_shares(total_shares)
    /\ purchases' = 0
    /\ reinvestments' = 0
    /\ pc' = "quarter"
    /\ UNCHANGED config

\* A caller holding the instance calls simulate(y, s).
simulate_call(y, s) ==
    /\ pc \in {"ready", "returned"}
    /\ Enter(y, s)
    /\ UNCHANGED <<attempts, error>>

\* The quarter loop takes its next value: the quarterly purchase.
simulate_buy ==
    /\ pc = "quarter"
    /\ quarter < total_quarters
    /\ quarter' = quarter + 1
    /\ quarter_start' = total_shares
    /\ total_shares' = after_purchase(total_shares, shares_per_quarter)
    /\ purchases' = purchases + 1
    /\ month' = 0
    /\ pc' = IF config.months_per_quarter >= 1 THEN "month" ELSE "quarter"
    /\ UNCHANGED <<config, years, shares_per_quarter, total_quarters, summary, prev,
                   reinvestments, attempts, error>>

\* The month loop takes its next value: the dividend is computed and reinvested.
simulate_reinvest ==
    /\ pc = "month"
    /\ month < config.months_per_quarter
    /\ month' = month + 1
    /\ total_shares' = after_dividend(total_shares, config)
    /\ reinvestments' = reinvestments + 1
    /\ pc' = IF month + 1 < config.months_per_quarter THEN "month" ELSE "quarter"
    /\ UNCHANGED <<config, years, shares_per_quarter, total_quarters, quarter, summary,
                   prev, quarter_start, purchases, attempts, error>>

\* A return that reinvests the projected dividend as one more month of the loop.
simulate_return_reinvesting ==
    /\ pc = "quarter"
    /\ quarter >= total_quarters
    /\ total_shares' = after_dividend(total_shares, config)
    /\ summary' = <<generate_summary(total_shares', config, years, shares_per_quarter)>>
    /\ pc' = "returned"
    /\ UNCHANGED <<config, years, shares_per_quarter, total_quarters,
                   quarter, month, prev, quarter_start, purchases, reinvestments,
                   attempts, error>>

\* A quarter loop that stops one quarter short.
simulate_return_early ==
    /\ pc = "quarter"
    /\ quarter >= total_quarters - 1
    /\ summary' = <<generate_summary(total_shares, config, years, shares_per_quarter)>>
    /\ pc' = "returned"
    /\ UNCHANGED <<config, total_shares, years, shares_per_quarter, total_quarters,
                   quarter, month, prev, quarter_start, purchases, reinvestments,
                   attempts, error>>

\* The quarter loop is exhausted: return self._generate_summary(...).
simulate_return ==
    /\ pc = "quarter"
    /\ quarter >= total_quarters
    /\ summary' = <<generate_summary(total_shares, config, years, shares_per_quarter)>>
    /\ pc' = "returned"
    /\ UNCHANGED <<config, total_shares, years, shares_per_quarter, total_quarters,
                   quarter, month, prev, quarter_start, purchases, reinvestments,
                   attempts, error>>

Init == \E cfg \in Configs : Constructed(cfg) /\ pc = "ready"

Next ==
    \/ \E y \in YearsArgs, s \in SharesArgs : simulate_call(y, s)
    \/ simulate_buy
    \/ simulate_reinvest
    \/ simulate_return

Spec == Init /\ [][Next]_vars

\* simulate is straight-line sequential code: a call that has begun keeps
\* taking its next step.
Step == simulate_buy \/ simulate_reinvest \/ simulate_return

\* One call on a fresh instance, run under that scheduling.
NextOneCall ==
    \/ \E y \in YearsArgs, s \in SharesArgs : pc = "ready" /\ simulate_call(y, s)
    \/ simulate_buy
    \/ simulate_reinvest
    \/ simulate_return

FairSpec == Init /\ [][NextOneCall]_vars /\ WF_vars(Step)

(***************************************************************************)
(* get_user_input and main.  A line is modelled by what str.split makes    *)
(* of it: its list of tokens, each a sequence of characters.               *)
(***************************************************************************)
DigitChars == <<"0", "1", "2", "3", "4", "5", "6", "7", "8", "9">>

IsDigit(c) == \E i \in 1..10 : DigitChars[i] = c

DigitVal(c) == (CHOOSE i \in 1..10 : DigitChars[i] = c) - 1

IsDigits(s) == Len(s) >= 1 /\ \A i \in 1..Len(s) : IsDigit(s[i])

RECURSIVE DecVal(_)
\* The number a sequence of digits writes.
DecVal(s) == IF s = <<>> THEN 0 ELSE 10 * DecVal(SubSeq(s, 1, Len(s) - 1)) + DigitVal(s[Len(s)])

HasSign(tok) == tok # <<>> /\ tok[1] \in {"-", "+"}

Unsigned(tok) == IF HasSign(tok) THEN Tail(tok) ELSE tok

TokSign(tok) == IF tok # <<>> /\ tok[1] = "-" THEN 0 - 1 ELSE 1

\* int(tok) succeeds: an optional sign and digits.
IsIntLiteral(tok) == IsDigits(Unsigned(tok))

\* int(tok)
IntValue(tok) == TokSign(tok) * DecVal(Unsigned(tok))

\* The characters of s other than ".".
NoPoint(s) == SelectSeq(s, LAMBDA c : c # ".")

\* A decimal: digits with at most one ".", and one digit or more.
IsDecimal(s) == Len(s) - Len(NoPoint(s)) <= 1 /\ IsDigits(NoPoint(s))

\* Digits after the ".".
Fraction(s) ==
    IF Len(NoPoint(s)) = Len(s) THEN 0
    ELSE Len(s) - (CHOOSE i \in 1..Len(s) : s[i] = ".")

\* float(tok) succeeds: a signed decimal, or nan, inf, infinity.
IsFloatLiteral(tok) ==
    \/ IsDecimal(Unsigned(tok))
    \/ Unsigned(tok) \in {<<"n", "a", "n">>, <<"i", "n", "f">>,
                          <<"i", "n", "f", "i", "n", "i", "t", "y">>}

\* float(tok)
FloatValue(tok) ==
    IF Unsigned(tok) = <<"n", "a", "n">> THEN NaN
    ELSE IF IsDecimal(Unsigned(tok))
         THEN FromDecimal(TokSign(tok) * DecVal(NoPoint(Unsigned(tok))),
                          Fraction(Unsigned(tok)))
    ELSE Inf(TokSign(tok))

\* The tokens the model types.
Tokens ==
    {<<"1">>, <<"2">>, <<"0">>, <<"-", "1">>, <<"1", ".", "5">>, <<"0", ".", "1">>,
     <<"n", "a", "n">>, <<"i", "n", "f">>, <<"-", "i", "n", "f">>, <<"x">>}

\* The lines the model types: up to three tokens.
Lines == UNION {[1..n -> Tokens] : n \in 0..3}

\* What the try block of get_user_input raises on a line: "" when it returns.
\* Unpacking anything but two tokens, int() and float() raise ValueError, and
\* so does the check `years <= 0 or shares <= 0`.
Rejection(line) ==
    IF Len(line) # 2 THEN "unpack"
    ELSE IF ~IsIntLiteral(line[1]) THEN "int"
    ELSE IF ~IsFloatLiteral(line[2]) THEN "float"
    ELSE IF IntValue(line[1]) <= 0 \/ FLe(FloatValue(line[2]), Zero) THEN "positive"
    ELSE ""

\* main builds its configuration and calculator, then asks for input.
InitMain == Constructed(MainConfig) /\ pc = "prompt"

\* get_user_input reads a line it rejects: the message is printed and it asks again.
get_user_input_retry(line) ==
    /\ pc = "prompt"
    /\ attempts < MaxAttempts
    /\ Rejection(line) # ""
    /\ attempts' = attempts + 1
    /\ error' = Rejection(line)
    /\ UNCHANGED <<config, total_shares, pc, years, shares_per_quarter, total_quarters,
                   quarter, month, summary, prev, quarter_start, purchases,
                   reinvestments>>

\* get_user_input reads a line it accepts and returns; main calls
\* calculator.simulate(years, shares_per_quarter, verbose=True).
get_user_input_return(line) ==
    /\ pc = "prompt"
    /\ attempts < MaxAttempts
    /\ Rejection(line) = ""
    /\ attempts' = attempts + 1
    /\ Enter(IntValue(line[1]), FloatValue(line[2]))
    /\ UNCHANGED error

\* input() meets the end of its input: EOFError is not caught and main ends.
get_user_input_eof ==
    /\ pc = "prompt"
    /\ pc' = "eof"
    /\ UNCHANGED <<config, total_shares, years, shares_per_quarter, total_quarters,
                   quarter, month, summary, prev, quarter_start, purchases,
                   reinvestments, attempts, error>>

\* main prints the summary simulate returned, and ends.
print_summary ==
    /\ pc = "returned"
    /\ pc' = "exit"
    /\ UNCHANGED <<config, total_shares, years, shares_per_quarter, total_quarters,
                   quarter, month, summary, prev, quarter_start, purchases,
                   reinvestments, attempts, error>>

NextMain ==
    \/ \E line \in Lines : get_user_input_retry(line)
    \/ \E line \in Lines : get_user_input_return(line)
    \/ get_user_input_eof
    \/ simulate_buy
    \/ simulate_reinvest
    \/ simulate_return
    \/ print_summary

SpecMain == InitMain /\ [][NextMain]_vars

(***************************************************************************)
(* Properties.                                                             *)
(***************************************************************************)
InSimulate == pc \in {"quarter", "month"}

\* The configuration is in the data model's domain.
ValidConfig ==
    /\ FLt(Zero, config.stock_price)
    /\ FLe(Zero, config.monthly_dividend_per_share)

\* C2: with stock_price > 0 and monthly_dividend_per_share >= 0, no step of
\* simulate (a quarterly purchase, a monthly reinvestment, the return) lowers
\* total_shares.
C2_NonDecreasing ==
    [][(InSimulate /\ ValidConfig) => FLe(total_shares, total_shares')]_vars

\* C2 witness: a quarter has ended in which the purchase and the dividends
\* have raised the balance.
C2_Witness ==
    /\ pc = "quarter"
    /\ quarter >= 1
    /\ reinvestments >= 2
    /\ FLt(FAdd(quarter_start, shares_per_quarter), total_shares)
    /\ FLt(quarter_start, FAdd(quarter_start, shares_per_quarter))

\* C3: two successive calls of simulate with the same arguments on one
\* instance return the same Summary, whatever total_shares held at entry.
C3_Idempotent ==
    (/\ pc = "returned"
     /\ prev # <<>>
     /\ prev[1].years = years
     /\ prev[1].shares_per_quarter = shares_per_quarter)
    => prev[1].summary = summary[1]

\* C3 witness: the second call has returned, having started on an instance
\* that still held the first call's nonzero balance.
C3_Witness ==
    /\ pc = "returned"
    /\ prev # <<>>
    /\ prev[1].years = years
    /\ prev[1].shares_per_quarter = shares_per_quarter
    /\ years >= 1
    /\ prev[1].summary.total_shares # Zero
    /\ summary[1].shares_from_dividend # Zero

\* C5: with shares_per_quarter = 0, total_shares is 0 from the reset on entry
\* to the returned Summary.
C5_ZeroPurchase ==
    (pc \in {"quarter", "month", "returned"} /\ shares_per_quarter = Zero)
    => /\ total_shares = Zero
       /\ summary # <<>> => summary[1].total_shares = Zero

\* C5 witness: a call with no purchases has returned after reinvesting
\* dividends at a positive rate, on an instance that held shares before it.
C5_Witness ==
    /\ pc = "returned"
    /\ shares_per_quarter = Zero
    /\ reinvestments >= 2
    /\ config.monthly_dividend_per_share # Zero
    /\ prev # <<>>
    /\ prev[1].summary.total_shares # Zero

\* The value k * s of a finite float s, exactly (it may need more than Prec bits).
ExactMultiple(s, k) == Fin(s.m * k, s.e)

\* A finite value fits a float's significand.
Representable(x) == BitLen(Abs(x.m)) <= Prec

\* C6: the Summary's total_invested_shares is the float product
\* shares_per_quarter * years * quarters_per_year (the exact product whenever
\* that is representable), one purchase of shares_per_quarter having been made
\* for each of the years * quarters_per_year quarters, and shares_from_dividend
\* is the final total_shares minus total_invested_shares.
C6_SummaryInvested ==
    pc = "returned" =>
        /\ summary[1].total_invested_shares =
               FMul(FMul(shares_per_quarter, FromInt(years)),
                    FromInt(config.quarters_per_year))
        /\ purchases = years * config.quarters_per_year
        /\ Representable(ExactMultiple(shares_per_quarter, purchases))
           => summary[1].total_invested_shares =
                  ExactMultiple(shares_per_quarter, purchases)
        /\ summary[1].total_shares = total_shares
        /\ summary[1].shares_from_dividend =
               FSub(total_shares, summary[1].total_invested_shares)

\* C6 witness: a Summary with invested shares and dividend shares.
C6_Witness ==
    /\ pc = "returned"
    /\ years >= 2
    /\ config.quarters_per_year >= 2
    /\ summary[1].total_invested_shares # Zero
    /\ FLt(Zero, summary[1].shares_from_dividend)

C9_ProjectionOutsideLoop ==
    [][(pc = "quarter" /\ pc' = "returned")
       => /\ total_shares' = total_shares
          /\ reinvestments' = reinvestments
          /\ summary'[1].total_shares = total_shares
          /\ summary'[1].monthly_dividend_shares =
                 FDiv(FMul(total_shares, config.monthly_dividend_per_share),
                      config.stock_price)
          /\ summary'[1].monthly_dividend_value =
                 FMul(summary'[1].monthly_dividend_shares, config.stock_price)]_vars

\* C9 witness: a Summary with a nonzero projection has been returned.
C9_Witness ==
    /\ pc = "returned"
    /\ reinvestments >= 2
    /\ summary[1].monthly_dividend_shares # Zero
    /\ summary[1].total_shares = total_shares

\* C10: in main, simulate only ever runs with years > 0 and
\* shares_per_quarter > 0.
C10_OnlyPositiveInput ==
    (pc \in {"quarter", "month", "returned", "exit"})
    => (years > 0 /\ FLt(Zero, shares_per_quarter))

RECURSIVE SumOfPurchases(_, _)
\* s added n times to 0.0, each addition rounded.
SumOfPurchases(s, n) == IF n <= 0 THEN Zero ELSE FAdd(SumOfPurchases(s, n - 1), s)

\* C4 as stated: with monthly_dividend_per_share = 0 the final total_shares is
\* exactly shares_per_quarter * years * quarters_per_year and
\* shares_from_dividend is 0.
C4_ExactlyInvested ==
    (pc = "returned" /\ config.monthly_dividend_per_share = Zero)
    => /\ total_shares = summary[1].total_invested_shares
       /\ total_shares = ExactMultiple(shares_per_quarter, years * config.quarters_per_year)
       /\ summary[1].shares_from_dividend = Zero

\* C4 amended: with monthly_dividend_per_share = 0 every dividend is 0 and the
\* final total_shares is the floating-point sum of the years * quarters_per_year
\* purchases; it is exactly shares_per_quarter * years * quarters_per_year, and
\* shares_from_dividend is 0, when every multiple k * shares_per_quarter up to
\* that one is representable as a float.
C4_SumOfPurchases ==
    (pc = "returned" /\ config.monthly_dividend_per_share = Zero)
    => LET n == years * config.quarters_per_year
       IN  /\ total_shares = SumOfPurchases(shares_per_quarter, n)
           /\ (\A k \in 1..n : Representable(ExactMultiple(shares_per_quarter, k)))
              => /\ total_shares = ExactMultiple(shares_per_quarter, n)
                 /\ summary[1].total_invested_shares = total_shares
                 /\ summary[1].shares_from_dividend = Zero

\* C4 witness: a zero-dividend run of several quarters whose purchases add up
\* without rounding.
C4_Witness ==
    /\ pc = "returned"
    /\ config.monthly_dividend_per_share = Zero
    /\ shares_per_quarter # Zero
    /\ purchases >= 4
    /\ reinvestments >= 4
    /\ \A k \in 1..purchases : Representable(ExactMultiple(shares_per_quarter, k))
    /\ total_shares = ExactMultiple(shares_per_quarter, purchases)

\* C8: a call of simulate with positive years and calendar constants
\* terminates; when its quarter loop is exhausted it has made exactly
\* years * quarters_per_year purchases and years * quarters_per_year *
\* months_per_quarter reinvestments, the last step having been the last month
\* of the last quarter; no Summary exists before that.
C8_Terminates ==
    /\ [](InSimulate => <>(pc = "returned"))
    /\ [](InSimulate => summary = <<>>)
    /\ []((pc \in {"quarter", "returned"} /\ quarter >= total_quarters /\ years > 0)
          => /\ quarter = years * config.quarters_per_year
             /\ month = config.months_per_quarter
             /\ purchases = years * config.quarters_per_year
             /\ reinvestments =
                    years * config.quarters_per_year * config.months_per_quarter)
    /\ [][summary' # summary /\ summary' # <<>>
          => /\ pc = "quarter"
             /\ quarter >= total_quarters
             /\ purchases' = purchases
             /\ reinvestments' = reinvestments]_vars

\* C8 witness: a call over two years or more has returned its Summary.
C8_Witness ==
    /\ pc = "returned"
    /\ years >= 2
    /\ config.months_per_quarter >= 2
    /\ purchases = years * config.quarters_per_year
    /\ reinvestments = purchases * config.months_per_quarter
    /\ summary # <<>>

(***************************************************************************)
(* Exact arithmetic for the closed form of a quarter: naturals of any size *)
(* as sequences of digits, least significant first, and non-negative       *)
(* dyadic values <<digits, e>> for digits * 2^e.                           *)
(***************************************************************************)
Base == 32 * 32

RECURSIVE MulCarry(_, _, _)
\* a * k + c for digits a and 0 <= k, c < 2^20.
MulCarry(a, k, c) ==
    IF a = <<>> THEN (IF c = 0 THEN <<>> ELSE <<c % Base>> \o MulCarry(<<>>, k, c \div Base))
    ELSE LET v == Head(a) * k + c
         IN  <<v % Base>> \o MulCarry(Tail(a), k, v \div Base)

BigFromInt(n) == MulCarry(<<>>, 0, n)

BigMulSmall(a, k) == IF k = 0 THEN <<>> ELSE MulCarry(a, k, 0)

RECURSIVE BigMulPow(_, _, _)
\* a * k^n
BigMulPow(a, k, n) == IF n <= 0 THEN a ELSE BigMulPow(BigMulSmall(a, k), k, n - 1)

RECURSIVE AddCarry(_, _, _)
AddCarry(a, b, c) ==
    IF a = <<>> /\ b = <<>> THEN (IF c = 0 THEN <<>> ELSE <<c>>)
    ELSE LET v == (IF a = <<>> THEN 0 ELSE Head(a)) + (IF b = <<>> THEN 0 ELSE Head(b)) + c
         IN  <<v % Base>> \o AddCarry(IF a = <<>> THEN <<>> ELSE Tail(a),
                                      IF b = <<>> THEN <<>> ELSE Tail(b), v \div Base)

BigAdd(a, b) == AddCarry(a, b, 0)

\* a < b
BigLess(a, b) ==
    \/ Len(a) < Len(b)
    \/ /\ Len(a) = Len(b)
       /\ \E i \in 1..Len(a) : a[i] < b[i] /\ \A j \in (i + 1)..Len(a) : a[j] = b[j]

\* The finite float x >= 0 as an exact dyadic value.
Dyadic(x) == <<BigFromInt(x.m), x.e>>

\* The digits of the dyadic value x at the exponent e <= x[2].
AtExponent(x, e) == BigMulPow(x[1], 2, x[2] - e)

DyadicAdd(x, y) ==
    LET e == Min(x[2], y[2]) IN <<BigAdd(AtExponent(x, e), AtExponent(y, e)), e>>

\* x * y^n for a dyadic x and a dyadic y whose digits are one small number.
DyadicTimesPower(x, ym, ye, n) == <<BigMulPow(x[1], ym, n), x[2] + n * ye>>

DyadicLess(x, y) ==
    LET e == Min(x[2], y[2]) IN BigLess(AtExponent(x, e), AtExponent(y, e))

DyadicEqual(x, y) ==
    LET e == Min(x[2], y[2]) IN AtExponent(x, e) = AtExponent(y, e)

\* stock_price + monthly_dividend_per_share, exactly: mantissa and exponent.
GrowthE(cfg) == Min(cfg.stock_price.e, cfg.monthly_dividend_per_share.e)

GrowthM(cfg) ==
    cfg.stock_price.m * Pow2(cfg.stock_price.e - GrowthE(cfg))
    + cfg.monthly_dividend_per_share.m * Pow2(cfg.monthly_dividend_per_share.e - GrowthE(cfg))

\* balance * stock_price^months_per_quarter, exactly.
ScaledBalance(ts, cfg) ==
    DyadicTimesPower(Dyadic(ts), cfg.stock_price.m, cfg.stock_price.e,
                     cfg.months_per_quarter)

\* (start + s) * (stock_price + monthly_dividend_per_share)^months_per_quarter,
\* exactly: the closed form (start + s) * (1 + dividend / price)^months, times
\* stock_price^months_per_quarter.
ScaledClosedForm(start, s, cfg) ==
    DyadicTimesPower(DyadicAdd(Dyadic(start), Dyadic(s)), GrowthM(cfg), GrowthE(cfg),
                     cfg.months_per_quarter)

RECURSIVE Compound(_, _, _)
\* The balance b after n months, each adding the dividend computed from the
\* balance the month before left, every operation rounded.
Compound(b, n, cfg) ==
    IF n <= 0 THEN b
    ELSE LET before == Compound(b, n - 1, cfg)
         IN  FAdd(before, FDiv(FMul(before, cfg.monthly_dividend_per_share),
                               cfg.stock_price))

\* A quarter has just ended.
QuarterEnded == pc = "quarter" /\ quarter >= 1

\* C1 as stated: the balance at the end of a quarter equals (balance at its
\* start + shares_per_quarter) * (1 + monthly_dividend_per_share /
\* stock_price) ^ months_per_quarter.
C1_ClosedFormExact ==
    QuarterEnded
    => DyadicEqual(ScaledBalance(total_shares, config),
                   ScaledClosedForm(quarter_start, shares_per_quarter, config))

\* Number of rounded operations of a quarter: the purchase, and a product, a
\* quotient and a sum each month.
RoundingsPerQuarter(cfg) == 3 * cfg.months_per_quarter + 1

\* C1 amended: in every quarter the purchase is added once, before any
\* dividend of the quarter, and each monthly dividend is computed from the
\* current total_shares and then added, every operation rounded to a float;
\* so the balance at the end of a quarter equals the closed form up to that
\* rounding: their ratio lies between (1 - 2^-Prec)^k and (1 + 2^-Prec)^k for
\* the k = 3 * months_per_quarter + 1 rounded operations of the quarter.
C1_QuarterCompounds ==
    /\ (pc = "month" \/ QuarterEnded)
       => /\ purchases = quarter
          /\ reinvestments = (quarter - 1) * config.months_per_quarter + month
          /\ total_shares =
                 Compound(FAdd(quarter_start, shares_per_quarter), month, config)
    /\ QuarterEnded
       => LET k      == RoundingsPerQuarter(config)
              got    == DyadicTimesPower(ScaledBalance(total_shares, config),
                                         Pow2(Prec), 0, k)
              closed == ScaledClosedForm(quarter_start, shares_per_quarter, config)
          IN  /\ month = config.months_per_quarter
              /\ ~DyadicLess(DyadicTimesPower(closed, Pow2(Prec) + 1, 0, k), got)
              /\ ~DyadicLess(got, DyadicTimesPower(closed, Pow2(Prec) - 1, 0, k))

\* C1 witness: a later quarter of several months has ended with a balance
\* that rounding has moved off the closed form.
C1_Witness ==
    /\ QuarterEnded
    /\ quarter >= 2
    /\ config.months_per_quarter >= 2
    /\ month = config.months_per_quarter
    /\ quarter_start # Zero
    /\ FLt(FAdd(quarter_start, shares_per_quarter), total_shares)
    /\ ~DyadicEqual(ScaledBalance(total_shares, config),
                    ScaledClosedForm(quarter_start, shares_per_quarter, config))

====
